---- MODULE Spec2Model ----
(***************************************************************************)
(* Optimal slot recommendation engine of the meeting assistant             *)
(* (services/ai/optimal_time_service.py) together with the parts of the    *)
(* calendar and user stores it reads.                                      *)
(*                                                                         *)
(* Units.  Instants are minutes of UTC counted from 00:00 UTC of day 0;    *)
(* day 0 is a Friday and day 2 is the Sunday on which America/New_York     *)
(* moves its clocks forward.  A time of day is minutes after local         *)
(* midnight.  Scores are exact rationals kept as integers: a sub-score s   *)
(* is stored as s * ScoreScale, an overall score as s * ScoreScale * 10.   *)
(***************************************************************************)
EXTENDS Integers, Sequences, FiniteSets, TLC

\* ---------------------------------------------------------------- bounds
MaxParticipants == 2
MaxDay == 3
MaxPeriods == 2
MaxMeetings == 2

\* ------------------------------------------------------------- constants
None == -1
ScoreScale == 120
MinutesPerDay == 1440
SlotStep == 30
TopK == 5
BufferMinutes == 30

Range(s) == {s[k] : k \in 1..Len(s)}

Max2(a, b) == IF a >= b THEN a ELSE b
Min2(a, b) == IF a <= b THEN a ELSE b

\* h:m as a time of day
T(h, m) == h * 60 + m
\* hh:mm UTC on day d as an instant
At(d, h, m) == d * MinutesPerDay + T(h, m)

\* ---------------------------------------------------------- time zones
\* A zone is the UTC offset before and after one change of offset, and the
\* local wall-clock minute at which the change happens.
Zones ==
    [ NY     |-> [before |-> -300, after |-> -240, change |-> At(2, 2, 0),
                  name_before |-> "EST", name_after |-> "EDT"],
      London |-> [before |-> 0,    after |-> 0,    change |-> At(2, 1, 0),
                  name_before |-> "GMT", name_after |-> "GMT"],
      Tokyo  |-> [before |-> 540,  after |-> 540,  change |-> At(2, 2, 0),
                  name_before |-> "JST", name_after |-> "JST"] ]

ZoneNames == DOMAIN Zones

\* variant: the offset of the first date is kept for every later date
LocalizeFixedOffset(tz, local) == local - Zones[tz].before

\* tz.localize(naive): the aware instant of a local wall-clock minute
Localize(tz, local) ==
    LET z == Zones[tz]
    IN  IF local < z.change THEN local - z.before ELSE local - z.after

\* aware.astimezone(tz): the local wall-clock minute of an instant
AsTimezone(tz, utc) ==
    LET z == Zones[tz]
    IN  IF utc < z.change - z.before THEN utc + z.before ELSE utc + z.after

\* %Z of aware.astimezone(tz)
ZoneAbbr(tz, utc) ==
    LET z == Zones[tz]
    IN  IF utc < z.change - z.before THEN z.name_before ELSE z.name_after

\* datetime.date() and datetime.time() of a local wall-clock minute
DateOf(local) == local \div MinutesPerDay
TimeOf(local) == local % MinutesPerDay
HourOf(tod) == tod \div 60

\* variant: the week is counted from Sunday
WeekdaySundayFirst(d) == (d + 5) % 7

\* date.weekday(): Monday is 0; day 0 is a Friday
Weekday(d) == (d + 4) % 7

\* datetime.combine(date, time)
Combine(d, tod) == d * MinutesPerDay + tod

\* ------------------------------------------------------ stored records
FridayTexts == {"Friday afternoon", "No meetings Fridays"}

\* "Friday" in block
MentionsFriday(block) == block \in FridayTexts

Prefs(tz, ws, we, wd, ls, le, pp, nmb, nma, blocks) ==
    [ time_zone |-> tz, working_hours_start |-> ws, working_hours_end |-> we,
      working_days |-> wd,
      lunch_break_start |-> ls, lunch_break_end |-> le,
      productive_periods |-> pp,
      no_meetings_before |-> nmb, no_meetings_after |-> nma,
      meeting_free_blocks |-> blocks,
      max_daily_meetings |-> 8, max_consecutive_meetings |-> 3,
      buffer_time_minutes |-> 15, preferred_meeting_duration |-> 30,
      avoid_back_to_back |-> TRUE ]

User(id, p) == [user_id |-> id, preferences |-> p]

\* WorkingDays, as values of date.weekday()
MondayToFriday == {0, 1, 2, 3, 4}
EveryDay == {0, 1, 2, 3, 4, 5, 6}

\* The records of data/users.json
UsersData ==
    << User("u1", Prefs("NY", T(9,0), T(17,0), MondayToFriday, None, None,
                        <<"morning", "afternoon">>, T(10,0), None, <<>>)),
       User("u2", Prefs("NY", T(9,0), T(17,0), MondayToFriday, None, None,
                        <<>>, None, T(16,0),
                        <<"Friday afternoon", "No meetings Fridays",
                          "Friday afternoon", "Friday afternoon",
                          "No meetings Fridays", "Monday morning">>)),
       User("u3", Prefs("London", T(9,0), T(17,0), MondayToFriday,
                        T(13,0), T(14,0),
                        <<"late_afternoon", "afternoon">>, None, None,
                        <<"Monday morning">>)),
       User("u4", Prefs("Tokyo", T(5,0), T(13,0), EveryDay, None, None,
                        <<"early_morning", "evening">>, T(9,0), None, <<>>)) >>

UserIds == {UsersData[k].user_id : k \in 1..Len(UsersData)}
RequestIds == UserIds \cup {"ghost"}

Meeting(id, ps, s, e) ==
    [meeting_id |-> id, participants |-> ps, start_time |-> s, end_time |-> e]

\* The records of data/meetings.json
MeetingsData ==
    << Meeting("meet_001", <<"u1", "u2">>, At(0,14,0), At(0,15,0)),
       Meeting("meet_002", <<"u3">>,       At(0,15,40), At(0,15,50)),
       Meeting("meet_003", <<"u1">>,       At(3,13,30), At(3,14,0)),
       Meeting("meet_004", <<"u4">>,       At(0,1,0), At(0,2,0)) >>

\* A data file is readable with a list of records, or unreadable
File(ok, data) == [ok |-> ok, data |-> data]
UsersFiles == {File(TRUE, UsersData), File(FALSE, <<>>)}
MeetingsFiles == {File(TRUE, MeetingsData), File(TRUE, <<>>), File(FALSE, <<>>)}

\* The memo of a loaded file: None, or the list
NoCache == [loaded |-> FALSE, data |-> <<>>]
Cached(data) == [loaded |-> TRUE, data |-> data]

\* ------------------------------------------------------------- inputs
Durations == {-30, 0, 15, 30, 60, 480}

SeqsUpTo(S, n) == UNION {[1..k -> S] : k \in 0..n}

\* the participant lists a call is made with: distinct ids, in any order
ParticipantLists ==
    {s \in SeqsUpTo(RequestIds, MaxParticipants) :
        \A i, j \in 1..Len(s) : i # j => s[i] # s[j]}

\* ------------------------------------------------------ stores (reads)
\* UserService.load_users / CalendarService.load_meetings: the memo if
\* there is one, else the file's records, else (unreadable) the empty list
LoadRecords(cache, file) ==
    IF cache.loaded THEN cache.data
    ELSE IF file.ok THEN file.data ELSE <<>>

\* UserService.get_user: the first record with that id, or <<>> for None
GetUser(all, user_id) ==
    LET hits == {k \in 1..Len(all) : all[k].user_id = user_id}
    IN  IF hits = {} THEN <<>>
        ELSE <<all[CHOOSE k \in hits : \A j \in hits : k <= j]>>

\* list.sort(key=lambda m: m.start_time): stable, ascending
RECURSIVE SortByStart(_, _)
SortByStart(seq, n) ==
    IF n = 0 THEN <<>>
    ELSE LET sorted == SortByStart(seq, n - 1)
             x == seq[n]
             pos == Cardinality({j \in 1..Len(sorted) :
                                   sorted[j].start_time <= x.start_time})
         IN  SubSeq(sorted, 1, pos) \o <<x>> \o SubSeq(sorted, pos + 1, Len(sorted))

\* variant: only a meeting that starts inside the range is kept
InRangeStartOnly(m, user_id, start_time, end_time) ==
    /\ user_id \in Range(m.participants)
    /\ m.start_time >= start_time
    /\ m.start_time < end_time

\* the test of CalendarService.get_user_meetings on one meeting
InRange(m, user_id, start_time, end_time) ==
    /\ user_id \in Range(m.participants)
    /\ ~(m.end_time <= start_time)
    /\ ~(m.start_time >= end_time)

\* CalendarService.get_user_meetings(user_id, start_time, end_time)
GetUserMeetings(all, user_id, start_time, end_time) ==
    LET Keep(m) == InRange(m, user_id, start_time, end_time)
        kept == SelectSeq(all, Keep)
    IN  SortByStart(kept, Len(kept))

\* variant: get_user_meetings sorts the loaded list itself
MemoAfterReadSorted(all) == SortByStart(all, Len(all))

\* the loaded list after get_user_meetings: the matches are collected and
\* sorted in a list of their own, the loaded list is as it was
MemoAfterRead(all) == all

\* variant: the buffer is applied twice
GetNearbyMeetingsWide(all, user_id, target_time, buffer_minutes) ==
    GetUserMeetings(all, user_id, target_time - 2 * buffer_minutes,
                    target_time + 2 * buffer_minutes)

\* CalendarService.get_nearby_meetings(user_id, target_time, buffer_minutes)
GetNearbyMeetings(all, user_id, target_time, buffer_minutes) ==
    GetUserMeetings(all, user_id, target_time - buffer_minutes,
                    target_time + buffer_minutes)

\* ------------------------------------------------- availability checks
\* user_start_utc / user_end_utc of _find_daily_availability
WorkStartUtc(user, date) ==
    Localize(user.preferences.time_zone,
             Combine(date, user.preferences.working_hours_start))
\* variant: working hours that end before they start run into the next day
WorkEndUtcOvernight(user, date) ==
    Localize(user.preferences.time_zone,
             Combine(IF user.preferences.working_hours_end
                          <= user.preferences.working_hours_start
                     THEN date + 1 ELSE date,
                     user.preferences.working_hours_end))

WorkEndUtc(user, date) ==
    Localize(user.preferences.time_zone,
             Combine(date, user.preferences.working_hours_end))

\* common_start: the latest start; common_end: the earliest end
RECURSIVE CommonStart(_, _, _)
CommonStart(us, n, date) ==
    IF n = 1 THEN WorkStartUtc(us[1], date)
    ELSE Max2(CommonStart(us, n - 1, date), WorkStartUtc(us[n], date))

RECURSIVE CommonEnd(_, _, _)
CommonEnd(us, n, date) ==
    IF n = 1 THEN WorkEndUtc(us[1], date)
    ELSE Min2(CommonEnd(us, n - 1, date), WorkEndUtc(us[n], date))

\* variant: only the slot's local start is tested against the lunch break
LunchConflictStartOnly(user, start_time, end_time) ==
    LET p == user.preferences
        user_local_start == TimeOf(AsTimezone(p.time_zone, start_time))
    IN  /\ p.lunch_break_start # None
        /\ p.lunch_break_end # None
        /\ user_local_start < p.lunch_break_end
        /\ user_local_start >= p.lunch_break_start

\* the lunch test of _check_availability_at_time for one user
LunchConflict(user, start_time, end_time) ==
    LET p == user.preferences
        user_local_start == TimeOf(AsTimezone(p.time_zone, start_time))
        user_local_end == TimeOf(AsTimezone(p.time_zone, end_time))
    IN  /\ p.lunch_break_start # None
        /\ p.lunch_break_end # None
        /\ user_local_start < p.lunch_break_end
        /\ user_local_end > p.lunch_break_start

\* one iteration of the loop of _check_availability_at_time
UserBlocked(all, user, start_time, end_time) ==
    \/ GetUserMeetings(all, user.user_id, start_time, end_time) # <<>>
    \/ LunchConflict(user, start_time, end_time)

\* index of the user at which _check_availability_at_time returns False,
\* 0 when it returns True
FirstBlocked(all, us, start_time, duration) ==
    LET end_time == start_time + duration
        blocked == {k \in 1..Len(us) : UserBlocked(all, us[k], start_time, end_time)}
    IN  IF blocked = {} THEN 0
        ELSE CHOOSE k \in blocked : \A j \in blocked : k <= j

CheckAvailabilityAtTime(all, us, start_time, duration) ==
    FirstBlocked(all, us, start_time, duration) = 0

\* number of get_user_meetings calls one _check_availability_at_time makes
ChecksMade(all, us, start_time, duration) ==
    LET k == FirstBlocked(all, us, start_time, duration)
    IN  IF k = 0 THEN Len(us) ELSE k

\* variant: a slot is reported for the first participant, the others are
\* listed as unavailable
TimeSlotFirstOnly(us, start_time, duration) ==
    [ start_time |-> start_time,
      end_time |-> start_time + duration,
      duration_minutes |-> duration,
      available_participants |-> << us[1].user_id >>,
      unavailable_participants |-> [k \in 1..(Len(us) - 1) |-> us[k + 1].user_id] ]

\* variant: every slot is one step long
TimeSlotOneStep(us, start_time, duration) ==
    [ start_time |-> start_time,
      end_time |-> start_time + SlotStep,
      duration_minutes |-> duration,
      available_participants |-> [k \in 1..Len(us) |-> us[k].user_id],
      unavailable_participants |-> <<>> ]

TimeSlot(us, start_time, duration) ==
    [ start_time |-> start_time,
      end_time |-> start_time + duration,
      duration_minutes |-> duration,
      available_participants |-> [k \in 1..Len(us) |-> us[k].user_id],
      unavailable_participants |-> <<>> ]

\* -------------------------------------------------------------- scoring
\* a score given in tenths of a point
Pts(tenths) == tenths * (ScoreScale \div 10)

LocalStart(user, time_slot) ==
    AsTimezone(user.preferences.time_zone, time_slot.start_time)

\* variant: a declared period that does not match puts the base score back
PeriodScoreLastDecides(period, hour, user_score) ==
    IF period = "early_morning" /\ 6 <= hour /\ hour < 9 THEN Pts(90)
    ELSE IF period = "morning" /\ 9 <= hour /\ hour < 12 THEN Pts(95)
    ELSE IF period = "afternoon" /\ 12 <= hour /\ hour < 15 THEN Pts(85)
    ELSE IF period = "late_afternoon" /\ 15 <= hour /\ hour < 18 THEN Pts(80)
    ELSE IF period = "evening" /\ 18 <= hour /\ hour < 21 THEN Pts(70)
    ELSE Pts(50)

\* one pass of the period loop of _calculate_productivity_score
PeriodScore(period, hour, user_score) ==
    IF period = "early_morning" /\ 6 <= hour /\ hour < 9 THEN Pts(90)
    ELSE IF period = "morning" /\ 9 <= hour /\ hour < 12 THEN Pts(95)
    ELSE IF period = "afternoon" /\ 12 <= hour /\ hour < 15 THEN Pts(85)
    ELSE IF period = "late_afternoon" /\ 15 <= hour /\ hour < 18 THEN Pts(80)
    ELSE IF period = "evening" /\ 18 <= hour /\ hour < 21 THEN Pts(70)
    ELSE user_score

RECURSIVE PeriodLoop(_, _, _)
PeriodLoop(periods, n, hour) ==
    IF n = 0 THEN Pts(50)
    ELSE PeriodScore(periods[n], hour, PeriodLoop(periods, n - 1, hour))

UserProductivity(user, time_slot) ==
    LET hour == HourOf(TimeOf(LocalStart(user, time_slot)))
        pp == user.preferences.productive_periods
    IN  PeriodLoop(pp, Len(pp), hour)

\* variant: the participant's score is not floored
UserConvenienceNoFloor(user, time_slot) ==
    LET p == user.preferences
        local_time == TimeOf(LocalStart(user, time_slot))
        hour == HourOf(local_time)
        base == Pts(80)
        early == IF hour < 8 THEN (8 - hour) * Pts(15)
                 ELSE IF hour > 17 THEN (hour - 17) * Pts(10) ELSE 0
        before == IF p.no_meetings_before # None /\ local_time < p.no_meetings_before
                  THEN Pts(30) ELSE 0
        after == IF p.no_meetings_after # None /\ local_time > p.no_meetings_after
                 THEN Pts(30) ELSE 0
    IN  base - early - before - after

\* one pass of the user loop of _calculate_convenience_score
UserConvenience(user, time_slot) ==
    LET p == user.preferences
        local_time == TimeOf(LocalStart(user, time_slot))
        hour == HourOf(local_time)
        base == Pts(80)
        early == IF hour < 8 THEN (8 - hour) * Pts(15)
                 ELSE IF hour > 17 THEN (hour - 17) * Pts(10) ELSE 0
        before == IF p.no_meetings_before # None /\ local_time < p.no_meetings_before
                  THEN Pts(30) ELSE 0
        after == IF p.no_meetings_after # None /\ local_time > p.no_meetings_after
                 THEN Pts(30) ELSE 0
    IN  Max2(base - early - before - after, Pts(10))

UserPreference(user, time_slot) ==
    LET blocks == user.preferences.meeting_free_blocks
        hits == {k \in 1..Len(blocks) :
                    /\ MentionsFriday(blocks[k])
                    /\ Weekday(DateOf(time_slot.start_time)) = 4}
    IN  Pts(80) - Cardinality(hits) * Pts(20)

\* min(total_score / len(users), 10.0)
AverageCapped(total, n) == Min2(total \div n, Pts(100))

RECURSIVE TotalProductivity(_, _, _)
TotalProductivity(us, n, time_slot) ==
    IF n = 0 THEN 0
    ELSE TotalProductivity(us, n - 1, time_slot) + UserProductivity(us[n], time_slot)

CalculateProductivityScore(time_slot, us) ==
    AverageCapped(TotalProductivity(us, Len(us), time_slot), Len(us))

RECURSIVE TotalConvenience(_, _, _)
TotalConvenience(us, n, time_slot) ==
    IF n = 0 THEN 0
    ELSE TotalConvenience(us, n - 1, time_slot) + UserConvenience(us[n], time_slot)

CalculateConvenienceScore(time_slot, us) ==
    AverageCapped(TotalConvenience(us, Len(us), time_slot), Len(us))

RECURSIVE TotalPreference(_, _, _)
TotalPreference(us, n, time_slot) ==
    IF n = 0 THEN 0
    ELSE TotalPreference(us, n - 1, time_slot) + UserPreference(us[n], time_slot)

CalculatePreferenceScore(time_slot, us) ==
    AverageCapped(TotalPreference(us, Len(us), time_slot), Len(us))

\* variant: each participant's own buffer_time_minutes is the buffer
RECURSIVE NearbyCountOwnBuffer(_, _, _, _)
NearbyCountOwnBuffer(all, us, n, time_slot) ==
    IF n = 0 THEN 0
    ELSE NearbyCountOwnBuffer(all, us, n - 1, time_slot)
         + Len(GetNearbyMeetings(all, us[n].user_id, time_slot.start_time,
                                 us[n].preferences.buffer_time_minutes))

\* variant: a meeting near the slot is counted once, whoever attends it
NearbyCountDistinct(all, us, n, time_slot) ==
    Cardinality({j \in 1..Len(all) : \E k \in 1..n :
                   InRange(all[j], us[k].user_id,
                           time_slot.start_time - BufferMinutes,
                           time_slot.start_time + BufferMinutes)})

\* the user loop of _calculate_conflict_risk_score: the meetings counted
RECURSIVE NearbyCount(_, _, _, _)
NearbyCount(all, us, n, time_slot) ==
    IF n = 0 THEN 0
    ELSE NearbyCount(all, us, n - 1, time_slot)
         + Len(GetNearbyMeetings(all, us[n].user_id, time_slot.start_time,
                                 BufferMinutes))

\* variant: the risk is averaged over the participants like the other scores
CalculateConflictRiskScoreAveraged(all, time_slot, us) ==
    Max2((Pts(80) - NearbyCount(all, us, Len(us), time_slot) * Pts(5)) \div Len(us),
         Pts(10))

\* _calculate_conflict_risk_score
CalculateConflictRiskScore(all, time_slot, us) ==
    Max2(Pts(80) - NearbyCount(all, us, Len(us), time_slot) * Pts(5), Pts(10))

\* variant: the weights of productivity and convenience are exchanged
OverallScoreSwapped(c) ==
    c.productivity_score * 3 + c.convenience_score * 4
    + c.conflict_risk_score * 2 + c.preference_score * 1

\* ScoreComponents and its overall_score property (in tenths of a sub-score unit)
OverallScore(c) ==
    c.productivity_score * 4 + c.convenience_score * 3
    + c.conflict_risk_score * 2 + c.preference_score * 1

CalculateSlotScore(all, time_slot, us) ==
    [ productivity_score |-> CalculateProductivityScore(time_slot, us),
      convenience_score |-> CalculateConvenienceScore(time_slot, us),
      conflict_risk_score |-> CalculateConflictRiskScore(all, time_slot, us),
      preference_score |-> CalculatePreferenceScore(time_slot, us) ]

\* variant: a convenience score of exactly 8.0 is not called convenient
GenerateExplanationStrict(c) ==
    << IF c.productivity_score >= Pts(85)
         THEN "Optimal productivity time for most participants"
       ELSE IF c.productivity_score >= Pts(70)
         THEN "Good productivity time for participants"
       ELSE "Suboptimal productivity time",
       IF c.convenience_score > Pts(80)
         THEN "Convenient time across time zones"
       ELSE "Some timezone inconvenience",
       IF c.conflict_risk_score >= Pts(80)
         THEN "Low conflict risk"
       ELSE "Potential scheduling conflicts" >>

\* the three sentences that _generate_explanation joins
GenerateExplanation(c) ==
    << IF c.productivity_score >= Pts(85)
         THEN "Optimal productivity time for most participants"
       ELSE IF c.productivity_score >= Pts(70)
         THEN "Good productivity time for participants"
       ELSE "Suboptimal productivity time",
       IF c.convenience_score >= Pts(80)
         THEN "Convenient time across time zones"
       ELSE "Some timezone inconvenience",
       IF c.conflict_risk_score >= Pts(80)
         THEN "Low conflict risk"
       ELSE "Potential scheduling conflicts" >>

\* variant: the widest range of hours is tested first
ImpactLevelWidestFirst(hour) ==
    IF 7 <= hour /\ hour <= 19 THEN "fair"
    ELSE IF 8 <= hour /\ hour <= 18 THEN "good"
    ELSE IF 9 <= hour /\ hour <= 17 THEN "excellent"
    ELSE "poor"

\* the impact level of _calculate_participant_impact
ImpactLevel(hour) ==
    IF 9 <= hour /\ hour <= 17 THEN "excellent"
    ELSE IF 8 <= hour /\ hour <= 18 THEN "good"
    ELSE IF 7 <= hour /\ hour <= 19 THEN "fair"
    ELSE "poor"

\* strftime("%I:%M %p %Z") of a local time
FormatLocal(tz, utc) ==
    LET tod == TimeOf(AsTimezone(tz, utc))
        h == HourOf(tod)
    IN  [ I |-> IF h % 12 = 0 THEN 12 ELSE h % 12,
          M |-> tod % 60,
          p |-> IF h < 12 THEN "AM" ELSE "PM",
          Z |-> ZoneAbbr(tz, utc) ]

\* the dict built by _calculate_participant_impact (a later entry for the
\* same user_id replaces the earlier one)
CalculateParticipantImpact(time_slot, us) ==
    LET ids == {us[k].user_id : k \in 1..Len(us)}
        Last(id) == us[CHOOSE k \in 1..Len(us) :
                          /\ us[k].user_id = id
                          /\ \A j \in 1..Len(us) : us[j].user_id = id => j <= k]
    IN  [ id \in ids |->
            LET tz == Last(id).preferences.time_zone
            IN  [ local_time |-> FormatLocal(tz, time_slot.start_time),
                  impact |-> ImpactLevel(HourOf(TimeOf(AsTimezone(tz, time_slot.start_time)))),
                  timezone |-> tz ] ]

OptimalSlot(all, window, us) ==
    LET c == CalculateSlotScore(all, window, us)
    IN  [ rank |-> 0,
          time_slot |-> window,
          overall_score |-> OverallScore(c),
          productivity_score |-> c.productivity_score,
          convenience_score |-> c.convenience_score,
          conflict_risk_score |-> c.conflict_risk_score,
          preference_score |-> c.preference_score,
          explanation |-> GenerateExplanation(c),
          participant_impact |-> CalculateParticipantImpact(window, us) ]

\* variant: a slot is placed before the slots of equal score
RECURSIVE SortByScoreDescUnstable(_, _)
SortByScoreDescUnstable(seq, n) ==
    IF n = 0 THEN <<>>
    ELSE LET sorted == SortByScoreDescUnstable(seq, n - 1)
             x == seq[n]
             pos == Cardinality({j \in 1..Len(sorted) :
                                   sorted[j].overall_score > x.overall_score})
         IN  SubSeq(sorted, 1, pos) \o <<x>> \o SubSeq(sorted, pos + 1, Len(sorted))

\* scored_slots.sort(key=lambda x: x.overall_score, reverse=True): stable
RECURSIVE SortByScoreDesc(_, _)
SortByScoreDesc(seq, n) ==
    IF n = 0 THEN <<>>
    ELSE LET sorted == SortByScoreDesc(seq, n - 1)
             x == seq[n]
             pos == Cardinality({j \in 1..Len(sorted) :
                                   sorted[j].overall_score >= x.overall_score})
         IN  SubSeq(sorted, 1, pos) \o <<x>> \o SubSeq(sorted, pos + 1, Len(sorted))

\* variant: slots of equal score share a rank
AssignRanksShared(seq) ==
    [k \in 1..Len(seq) |->
        [seq[k] EXCEPT !.rank =
            1 + Cardinality({j \in 1..Len(seq) :
                               seq[j].overall_score > seq[k].overall_score})]]

\* for i, slot in enumerate(scored_slots): slot.rank = i + 1
AssignRanks(seq) == [k \in 1..Len(seq) |-> [seq[k] EXCEPT !.rank = k]]

\* scored_slots[:5]
Truncate(seq) == SubSeq(seq, 1, Min2(Len(seq), TopK))

\* ---------------------------------------------------------------- state
VARIABLES
    users_file,             \* data/users.json
    users_cache,            \* UserService._users_cache
    meetings_file,          \* data/meetings.json
    meetings_cache,         \* CalendarService._meetings_cache
    participants,           \* arguments of find_optimal_slots
    duration,
    date_range,             \* <<start date, end date>>
    preferences,            \* the keys of the preferences dict
    pc,                     \* position in find_optimal_slots
    idx,                    \* loop index of the participant and scoring loops
    users,                  \* resolved participants
    current_date,           \* _find_availability_windows
    availability_windows,
    common_start,           \* _find_daily_availability
    common_end,
    current_time,
    daily_windows,
    scored_slots,
    result,                 \* the list returned
    error,                  \* the exception raised, or "none"
    meeting_lookups,        \* calls of get_user_meetings made so far
    searched_dates,         \* dates handed to _find_daily_availability
    first_call              \* outcome of the call made before this one, if any

vars == << users_file, users_cache, meetings_file, meetings_cache,
           participants, duration, date_range, preferences, pc, idx, users, current_date,
           availability_windows, common_start, common_end, current_time,
           daily_windows, scored_slots, result, error, meeting_lookups,
           searched_dates, first_call >>

stores == << users_file, users_cache, meetings_file, meetings_cache >>
args == << participants, duration, date_range, preferences >>
day_loop == << common_start, common_end, current_time, daily_windows >>

Init ==
    /\ users_file \in UsersFiles
    /\ users_cache = NoCache
    /\ meetings_file \in MeetingsFiles
    /\ meetings_cache = NoCache
    /\ participants \in ParticipantLists
    /\ duration \in Durations
    /\ date_range \in (0..MaxDay) \X (0..MaxDay)
    /\ preferences = {}
    /\ pc = "lookup"
    /\ idx = 1
    /\ users = <<>>
    /\ current_date = None
    /\ availability_windows = <<>>
    /\ common_start = None
    /\ common_end = None
    /\ current_time = None
    /\ daily_windows = <<>>
    /\ scored_slots = <<>>
    /\ result = <<>>
    /\ error = "none"
    /\ meeting_lookups = 0
    /\ searched_dates = <<>>
    /\ first_call = <<>>

\* _get_participant_data, one pass of its loop: get_user and append
GetParticipant ==
    /\ pc = "lookup"
    /\ idx <= Len(participants)
    /\ LET all == LoadRecords(users_cache, users_file)
       IN  /\ users_cache' = Cached(all)
           /\ users' = users \o GetUser(all, participants[idx])
    /\ idx' = idx + 1
    /\ UNCHANGED << users_file, meetings_file, meetings_cache, args, pc,
                    current_date, availability_windows, day_loop,
                    scored_slots, result, error, meeting_lookups,
                    searched_dates, first_call >>

\* variant: the call is refused as soon as one participant was dropped
CheckParticipantsStrict ==
    /\ pc = "lookup"
    /\ idx > Len(participants)
    /\ IF Len(users) < Len(participants) \/ users = <<>>
       THEN /\ pc' = "failed"
            /\ error' = "ValueError"
            /\ UNCHANGED current_date
       ELSE /\ pc' = "dates"
            /\ current_date' = date_range[1]
            /\ UNCHANGED error
    /\ UNCHANGED << stores, args, idx, users, availability_windows, day_loop,
                    scored_slots, result, meeting_lookups,
                    searched_dates, first_call >>

\* variant: the search starts once the first participant was looked up
CheckParticipantsEarly ==
    /\ pc = "lookup"
    /\ idx > Min2(1, Len(participants))
    /\ IF users = <<>>
       THEN /\ pc' = "failed"
            /\ error' = "ValueError"
            /\ UNCHANGED current_date
       ELSE /\ pc' = "dates"
            /\ current_date' = date_range[1]
            /\ UNCHANGED error
    /\ UNCHANGED << stores, args, idx, users, availability_windows, day_loop,
                    scored_slots, result, meeting_lookups,
                    searched_dates, first_call >>

\* find_optimal_slots after _get_participant_data: raise, or start the search
CheckParticipants ==
    /\ pc = "lookup"
    /\ idx > Len(participants)
    /\ IF users = <<>>
       THEN /\ pc' = "failed"
            /\ error' = "ValueError"
            /\ UNCHANGED current_date
       ELSE /\ pc' = "dates"
            /\ current_date' = date_range[1]
            /\ UNCHANGED error
    /\ UNCHANGED << stores, args, idx, users, availability_windows, day_loop,
                    scored_slots, result, meeting_lookups,
                    searched_dates, first_call >>

\* _find_availability_windows: a Saturday or Sunday is passed over
SkipWeekend ==
    /\ pc = "dates"
    /\ current_date <= date_range[2]
    /\ Weekday(current_date) >= 5
    /\ current_date' = current_date + 1
    /\ UNCHANGED << stores, args, pc, idx, users, availability_windows,
                    day_loop, scored_slots, result, error, meeting_lookups,
                    searched_dates, first_call >>

\* _find_daily_availability up to its slot loop: the common window
FindDailyAvailability ==
    /\ pc = "dates"
    /\ current_date <= date_range[2]
    /\ Weekday(current_date) < 5
    /\ LET cs == CommonStart(users, Len(users), current_date)
           ce == CommonEnd(users, Len(users), current_date)
       IN  /\ common_start' = cs
           /\ common_end' = ce
           /\ daily_windows' = <<>>
           /\ searched_dates' = Append(searched_dates, current_date)
           /\ IF ce <= cs
              THEN /\ current_date' = current_date + 1
                   /\ UNCHANGED << pc, current_time >>
              ELSE /\ pc' = "slots"
                   /\ current_time' = cs
                   /\ UNCHANGED current_date
    /\ UNCHANGED << stores, args, idx, users, availability_windows,
                    scored_slots, result, error, meeting_lookups,
                    first_call >>

\* variant: a candidate that ends at the end of the window is not tried
SlotFitsStrict(t, slot_duration, window_end) == t + slot_duration < window_end

\* the condition of the slot loop
SlotFits(t, slot_duration, window_end) == t + slot_duration <= window_end

\* one pass of the slot loop: _check_availability_at_time, append, step
CheckSlot ==
    /\ pc = "slots"
    /\ SlotFits(current_time, duration, common_end)
    /\ LET all == LoadRecords(meetings_cache, meetings_file)
       IN  /\ meetings_cache' = Cached(MemoAfterRead(all))
           /\ meeting_lookups' = meeting_lookups
                                   + ChecksMade(all, users, current_time, duration)
           /\ daily_windows' =
                IF CheckAvailabilityAtTime(all, users, current_time, duration)
                THEN Append(daily_windows, TimeSlot(users, current_time, duration))
                ELSE daily_windows
    /\ current_time' = current_time + SlotStep
    /\ UNCHANGED << users_file, users_cache, meetings_file, args, pc, idx,
                    users, current_date, availability_windows, common_start,
                    common_end, scored_slots, result, error,
                    searched_dates, first_call >>

\* the slot loop ends: the day's windows are added, the next date follows
EndDay ==
    /\ pc = "slots"
    /\ ~SlotFits(current_time, duration, common_end)
    /\ availability_windows' = availability_windows \o daily_windows
    /\ current_date' = current_date + 1
    /\ pc' = "dates"
    /\ UNCHANGED << stores, args, idx, users, day_loop, scored_slots, result,
                    error, meeting_lookups,
                    searched_dates, first_call >>

\* variant: a search that found nothing is reported as an error
EndSearchRaises ==
    /\ pc = "dates"
    /\ ~(current_date <= date_range[2])
    /\ IF availability_windows = <<>>
       THEN /\ pc' = "failed"
            /\ error' = "ValueError"
            /\ UNCHANGED << idx, result >>
       ELSE /\ pc' = "score"
            /\ idx' = 1
            /\ UNCHANGED << result, error >>
    /\ UNCHANGED << stores, args, users, current_date, availability_windows,
                    day_loop, scored_slots, meeting_lookups,
                    searched_dates, first_call >>

\* the date loop ends: return [] when nothing was found, else score
EndSearch ==
    /\ pc = "dates"
    /\ ~(current_date <= date_range[2])
    /\ IF availability_windows = <<>>
       THEN /\ pc' = "done"
            /\ result' = <<>>
            /\ UNCHANGED idx
       ELSE /\ pc' = "score"
            /\ idx' = 1
            /\ UNCHANGED result
    /\ UNCHANGED << stores, args, users, current_date, availability_windows,
                    day_loop, scored_slots, error, meeting_lookups,
                    searched_dates, first_call >>

\* one pass of the scoring loop
ScoreSlot ==
    /\ pc = "score"
    /\ idx <= Len(availability_windows)
    /\ LET all == LoadRecords(meetings_cache, meetings_file)
       IN  /\ meetings_cache' = Cached(MemoAfterRead(all))
           /\ scored_slots' = Append(scored_slots,
                                OptimalSlot(all, availability_windows[idx], users))
    /\ meeting_lookups' = meeting_lookups + Len(users)
    /\ idx' = idx + 1
    /\ UNCHANGED << users_file, users_cache, meetings_file, args, pc, users,
                    current_date, availability_windows, day_loop, result, error,
                    searched_dates, first_call >>

\* sort, rank, truncate, return
RankAndReturn ==
    /\ pc = "score"
    /\ idx > Len(availability_windows)
    /\ LET sorted == AssignRanks(SortByScoreDesc(scored_slots, Len(scored_slots)))
       IN  /\ scored_slots' = sorted
           /\ result' = Truncate(sorted)
    /\ pc' = "done"
    /\ UNCHANGED << stores, args, idx, users, current_date,
                    availability_windows, day_loop, error, meeting_lookups,
                    searched_dates, first_call >>

Next ==
    \/ GetParticipant
    \/ CheckParticipants
    \/ SkipWeekend
    \/ FindDailyAvailability
    \/ CheckSlot
    \/ EndDay
    \/ EndSearch
    \/ ScoreSlot
    \/ RankAndReturn

Spec == Init /\ [][Next]_vars

\* ------------------------------------------------------- a repeated call
\* what a call handed back: how it ended, the list returned, the exception
Outcome == [ended |-> pc, result |-> result, error |-> error]

\* variant: the windows found by the first call are still there
CallAgainKeepsWindows ==
    /\ pc \in {"done", "failed"}
    /\ first_call = <<>>
    /\ first_call' = << Outcome >>
    /\ pc' = "lookup"
    /\ idx' = 1
    /\ users' = <<>>
    /\ current_date' = None
    /\ common_start' = None
    /\ common_end' = None
    /\ current_time' = None
    /\ daily_windows' = <<>>
    /\ scored_slots' = <<>>
    /\ result' = <<>>
    /\ error' = "none"
    /\ meeting_lookups' = 0
    /\ searched_dates' = <<>>
    /\ UNCHANGED << stores, args, availability_windows >>

\* find_optimal_slots is called again on the same service objects with the same
\* arguments: the locals are fresh, the stores and their memos are kept
CallAgain ==
    /\ pc \in {"done", "failed"}
    /\ first_call = <<>>
    /\ first_call' = << Outcome >>
    /\ pc' = "lookup"
    /\ idx' = 1
    /\ users' = <<>>
    /\ current_date' = None
    /\ availability_windows' = <<>>
    /\ common_start' = None
    /\ common_end' = None
    /\ current_time' = None
    /\ daily_windows' = <<>>
    /\ scored_slots' = <<>>
    /\ result' = <<>>
    /\ error' = "none"
    /\ meeting_lookups' = 0
    /\ searched_dates' = <<>>
    /\ UNCHANGED << stores, args >>

\* the same user with other values in the fields that the engine does not
\* read
OtherKnobs(user) ==
    [user EXCEPT !.preferences.working_days =
                     IF @ = EveryDay THEN MondayToFriday ELSE EveryDay,
                 !.preferences.max_daily_meetings = 2,
                 !.preferences.max_consecutive_meetings = 1,
                 !.preferences.buffer_time_minutes = 60,
                 !.preferences.preferred_meeting_duration = 45,
                 !.preferences.avoid_back_to_back = FALSE]

\* data/users.json with those values in every record
Retuned(file) ==
    File(file.ok, [k \in 1..Len(file.data) |-> OtherKnobs(file.data[k])])

\* find_optimal_slots is run once more, on services that are new, with the
\* same participants, duration and date range, another preferences dict and
\* the other values in the users' unread fields
CallWithOtherKnobs ==
    /\ pc \in {"done", "failed"}
    /\ first_call = <<>>
    /\ first_call' = << Outcome >>
    /\ users_file' = Retuned(users_file)
    /\ users_cache' = NoCache
    /\ meetings_cache' = NoCache
    /\ preferences' = {"preferred_time", "avoid_lunch"}
    /\ pc' = "lookup"
    /\ idx' = 1
    /\ users' = <<>>
    /\ current_date' = None
    /\ availability_windows' = <<>>
    /\ common_start' = None
    /\ common_end' = None
    /\ current_time' = None
    /\ daily_windows' = <<>>
    /\ scored_slots' = <<>>
    /\ result' = <<>>
    /\ error' = "none"
    /\ meeting_lookups' = 0
    /\ searched_dates' = <<>>
    /\ UNCHANGED << meetings_file, participants, duration, date_range >>

KnobNext ==
    \/ Next
    \/ CallWithOtherKnobs

KnobSpec == Init /\ [][KnobNext]_vars

\* --------------------------------------------- a store with a night shift
\* data/users.json with one more user, whose working hours end before they
\* start
ShiftUsers ==
    UsersData \o
    << User("u5", Prefs("London", T(17,0), T(9,0), MondayToFriday, None, None,
                        <<>>, None, None, <<>>)) >>

ShiftParticipantLists ==
    {s \in SeqsUpTo({"u1", "u3", "u4", "u5"}, MaxParticipants) :
        \A i, j \in 1..Len(s) : i # j => s[i] # s[j]}

ShiftInit ==
    /\ users_file = File(TRUE, ShiftUsers)
    /\ users_cache = NoCache
    /\ meetings_file \in {File(TRUE, MeetingsData), File(TRUE, <<>>)}
    /\ meetings_cache = NoCache
    /\ participants \in ShiftParticipantLists
    /\ duration \in {-30, 30, 480}
    /\ date_range \in (0..MaxDay) \X (0..MaxDay)
    /\ preferences = {}
    /\ pc = "lookup"
    /\ idx = 1
    /\ users = <<>>
    /\ current_date = None
    /\ availability_windows = <<>>
    /\ common_start = None
    /\ common_end = None
    /\ current_time = None
    /\ daily_windows = <<>>
    /\ scored_slots = <<>>
    /\ result = <<>>
    /\ error = "none"
    /\ meeting_lookups = 0
    /\ searched_dates = <<>>
    /\ first_call = <<>>

ShiftSpec == ShiftInit /\ [][Next]_vars

\* ------------------------------------------ the meeting store's writers
\* f"meet_{counter:03d}"
MeetingIdText(counter) ==
    << "meet_001", "meet_002", "meet_003", "meet_004", "meet_005",
       "meet_006" >>[counter]

\* create_meeting: the first counter whose id no meeting has
NewMeetingId(meetings) ==
    LET existing_ids == {meetings[k].meeting_id : k \in 1..Len(meetings)}
        counter == CHOOSE c \in 1..(Len(meetings) + 1) :
                      /\ MeetingIdText(c) \notin existing_ids
                      /\ \A b \in 1..(c - 1) : MeetingIdText(b) \in existing_ids
    IN  MeetingIdText(counter)

\* how a save_meetings call can end: written; failed before the file was
\* opened for writing; failed after it was opened (and so truncated)
SaveOutcomes == {"saved", "failed", "torn"}

\* data/meetings.json after save_meetings(meetings)
FileAfterSave(outcome, file, meetings) ==
    IF outcome = "saved" THEN File(TRUE, meetings)
    ELSE IF outcome = "torn" THEN File(FALSE, <<>>)
    ELSE file

\* the arguments the writers are called with
CreatedParticipants == { <<"u1">>, <<"u1", "u2">> }
CreatedDurations == {30, 60}
UtcNow == At(0, 12, 0)
UpdatedStarts == {At(3, 9, 0)}

StoreInit ==
    /\ users_file = File(TRUE, UsersData)
    /\ users_cache = NoCache
    /\ meetings_file \in {File(TRUE, << MeetingsData[2] >>), File(TRUE, <<>>),
                           File(FALSE, <<>>)}
    /\ meetings_cache = NoCache
    /\ participants = <<>>
    /\ duration = 30
    /\ date_range = <<0, 0>>
    /\ preferences = {}
    /\ pc = "store"
    /\ idx = 1
    /\ users = <<>>
    /\ current_date = None
    /\ availability_windows = <<>>
    /\ common_start = None
    /\ common_end = None
    /\ current_time = None
    /\ daily_windows = <<>>
    /\ scored_slots = <<>>
    /\ result = <<>>
    /\ error = "none"
    /\ meeting_lookups = 0
    /\ searched_dates = <<>>
    /\ first_call = <<>>

engine == << users_file, users_cache, args, pc, idx, users, current_date,
             availability_windows, day_loop, scored_slots, result, error,
             meeting_lookups, searched_dates, first_call >>

\* get_user_meetings: load_meetings fills the memo
ReadMeetings ==
    /\ pc = "store"
    /\ meetings_cache' = Cached(LoadRecords(meetings_cache, meetings_file))
    /\ UNCHANGED << meetings_file, engine >>

\* create_meeting: the new meeting is appended to the loaded list, which is
\* then handed to save_meetings; the result of the save is not looked at
CreateMeeting ==
    /\ pc = "store"
    /\ LET meetings == LoadRecords(meetings_cache, meetings_file)
       IN  /\ Len(meetings) < MaxMeetings
           /\ \E ps \in CreatedParticipants, d \in CreatedDurations,
                 outcome \in SaveOutcomes :
                 LET meeting == Meeting(NewMeetingId(meetings), ps, UtcNow, UtcNow + d)
                     appended == Append(meetings, meeting)
                 IN  /\ meetings_cache' = Cached(appended)
                     /\ meetings_file' = FileAfterSave(outcome, meetings_file, appended)
    /\ UNCHANGED engine

\* update_meeting: the fields of the meeting found are set in the loaded list,
\* which is then handed to save_meetings; an unknown id changes nothing
UpdateMeeting ==
    /\ pc = "store"
    /\ LET meetings == LoadRecords(meetings_cache, meetings_file)
       IN  \E c \in 1..(MaxMeetings + 1), t \in UpdatedStarts, outcome \in SaveOutcomes :
             LET hits == {k \in 1..Len(meetings) :
                             meetings[k].meeting_id = MeetingIdText(c)}
             IN  IF hits = {}
                 THEN /\ meetings_cache' = Cached(meetings)
                      /\ UNCHANGED meetings_file
                 ELSE LET i == CHOOSE k \in hits : \A j \in hits : k <= j
                          updated == [meetings EXCEPT ![i].start_time = t,
                                                      ![i].end_time = t + 30]
                      IN  /\ meetings_cache' = Cached(updated)
                          /\ meetings_file' = FileAfterSave(outcome, meetings_file, updated)
    /\ UNCHANGED engine

\* delete_meeting: the meeting found is popped from the loaded list, which is
\* then handed to save_meetings; an unknown id changes nothing
DeleteMeeting ==
    /\ pc = "store"
    /\ LET meetings == LoadRecords(meetings_cache, meetings_file)
       IN  \E c \in 1..(MaxMeetings + 1), outcome \in SaveOutcomes :
             LET hits == {k \in 1..Len(meetings) :
                             meetings[k].meeting_id = MeetingIdText(c)}
             IN  IF hits = {}
                 THEN /\ meetings_cache' = Cached(meetings)
                      /\ UNCHANGED meetings_file
                 ELSE LET i == CHOOSE k \in hits : \A j \in hits : k <= j
                          popped == SubSeq(meetings, 1, i - 1)
                                      \o SubSeq(meetings, i + 1, Len(meetings))
                      IN  /\ meetings_cache' = Cached(popped)
                          /\ meetings_file' = FileAfterSave(outcome, meetings_file, popped)
    /\ UNCHANGED engine

StoreNext ==
    \/ ReadMeetings
    \/ CreateMeeting
    \/ UpdateMeeting
    \/ DeleteMeeting

StoreSpec == StoreInit /\ [][StoreNext]_vars

RepeatNext ==
    \/ Next
    \/ CallAgain

RepeatSpec == Init /\ [][RepeatNext]_vars

\* ------------------------------------------------- the scorer on its own
\* ProductivityPeriod
ProductivityPeriods ==
    {"early_morning", "morning", "afternoon", "late_afternoon", "evening"}

PeriodLists == SeqsUpTo(ProductivityPeriods, MaxPeriods)

\* a participant with any zone, any list of productive periods and any of the
\* two limits on meeting times
Profiles ==
    { User("p1", Prefs(tz, T(9,0), T(17,0), MondayToFriday, None, None,
                       pp, nmb, nma, <<>>)) :
        tz \in ZoneNames, pp \in PeriodLists,
        nmb \in {None, T(9,0)}, nma \in {None, T(16,0)} }

\* the users handed to the scorer: that participant, alone or with u4
ScoredUsers == { <<p>> \o rest : p \in Profiles, rest \in {<<>>, <<UsersData[4]>>} }

\* the slot handed to the scorer: any full hour of day 0, 30 or 90 minutes
ScoredStarts == {At(0, h, 0) : h \in 0..23}
ScoredDurations == {30, 90}

\* find_optimal_slots at its scoring loop, with one window to score
ScoreInit ==
    /\ users_file = File(TRUE, UsersData)
    /\ users_cache = NoCache
    /\ meetings_file = File(TRUE, MeetingsData)
    /\ meetings_cache = NoCache
    /\ users \in ScoredUsers
    /\ participants = [k \in 1..Len(users) |-> users[k].user_id]
    /\ duration \in ScoredDurations
    /\ date_range = <<0, 0>>
    /\ preferences = {}
    /\ pc = "score"
    /\ idx = 1
    /\ current_date = None
    /\ \E t \in ScoredStarts : availability_windows = << TimeSlot(users, t, duration) >>
    /\ common_start = None
    /\ common_end = None
    /\ current_time = None
    /\ daily_windows = <<>>
    /\ scored_slots = <<>>
    /\ result = <<>>
    /\ error = "none"
    /\ meeting_lookups = 0
    /\ searched_dates = <<>>
    /\ first_call = <<>>

ScoreNext ==
    \/ ScoreSlot
    \/ RankAndReturn

ScoreSpec == ScoreInit /\ [][ScoreNext]_vars

\* ------------------------------------------------------------ properties
Returned == pc = "done"
ResultSlots == {k \in 1..Len(result) : TRUE}
UserIx == 1..Len(users)

\* the meetings and users the stores hold (none when the file is unreadable)
StoredMeetings == meetings_file.data
StoredUsers == users_file.data

Lists(m, u) == u.user_id \in Range(m.participants)

\* C1: no returned slot overlaps a stored meeting of a resolved participant,
\* where a meeting overlaps iff it starts before the slot's end and ends after
\* the slot's start.
C1_NoBookedOverlap ==
    Returned =>
        \A k \in ResultSlots : \A u \in UserIx : \A j \in 1..Len(StoredMeetings) :
            LET slot == result[k].time_slot
                m == StoredMeetings[j]
            IN  Lists(m, users[u]) =>
                    ~(m.start_time < slot.end_time /\ m.end_time > slot.start_time)

\* a returned slot starts exactly where a participant's meeting ends
C1_Witness ==
    /\ Returned
    /\ \E k \in ResultSlots : \E u \in UserIx : \E j \in 1..Len(StoredMeetings) :
          /\ Lists(StoredMeetings[j], users[u])
          /\ StoredMeetings[j].end_time = result[k].time_slot.start_time
          /\ duration > 0

HasLunch(u) ==
    /\ u.preferences.lunch_break_start # None
    /\ u.preferences.lunch_break_end # None

OverlapsLunch(u, start_time, end_time) ==
    LET local_start == TimeOf(AsTimezone(u.preferences.time_zone, start_time))
        local_end == TimeOf(AsTimezone(u.preferences.time_zone, end_time))
    IN  /\ local_start < u.preferences.lunch_break_end
        /\ local_end > u.preferences.lunch_break_start

HasMeetingIn(u, start_time, end_time) ==
    \E j \in 1..Len(StoredMeetings) :
        /\ Lists(StoredMeetings[j], u)
        /\ StoredMeetings[j].start_time < end_time
        /\ StoredMeetings[j].end_time > start_time

\* a pass of the slot loop that adds no candidate
Rejects == pc = "slots" /\ pc' = "slots" /\ daily_windows' = daily_windows

\* C2: no returned slot overlaps, in local time, the lunch break of a resolved
\* participant who has one configured; and a candidate is rejected only when
\* some participant has a booked meeting in it or has a configured lunch break
\* that it overlaps, so a participant without a lunch break never rejects a
\* candidate on lunch grounds.
C2_LunchRespected ==
    /\ [](Returned =>
            \A k \in ResultSlots : \A u \in UserIx :
                HasLunch(users[u]) =>
                    ~OverlapsLunch(users[u], result[k].time_slot.start_time,
                                   result[k].time_slot.end_time))
    /\ [][Rejects =>
            \E u \in UserIx :
                \/ HasMeetingIn(users[u], current_time, current_time + duration)
                \/ /\ HasLunch(users[u])
                   /\ OverlapsLunch(users[u], current_time, current_time + duration)]_vars

\* slots are returned for a participant with a lunch break and one without,
\* on a day on which candidates around the lunch break were formed
C2_Witness ==
    /\ Returned
    /\ result # <<>>
    /\ duration = 60
    /\ \E u \in UserIx : HasLunch(users[u])
    /\ \E u \in UserIx : ~HasLunch(users[u])
    /\ Len(availability_windows) < 7

\* the UTC offset in effect in a zone at a local wall-clock time
OffsetAt(tz, local) ==
    IF local < Zones[tz].change THEN Zones[tz].before ELSE Zones[tz].after

\* a participant's working-hours interval on a date, in UTC
WorkFrom(u, d) ==
    Combine(d, u.preferences.working_hours_start)
      - OffsetAt(u.preferences.time_zone, Combine(d, u.preferences.working_hours_start))
WorkUntil(u, d) ==
    Combine(d, u.preferences.working_hours_end)
      - OffsetAt(u.preferences.time_zone, Combine(d, u.preferences.working_hours_end))

SearchedDates == {d \in date_range[1]..date_range[2] : Weekday(d) < 5}

\* C3: every returned slot (a non-empty interval [start, end)) lies inside the
\* working-hours interval of every resolved participant on one searched date,
\* the interval being the local working hours converted with the UTC offset in
\* effect on that date.
C3_InsideWorkingHours ==
    Returned =>
        \A k \in ResultSlots :
            LET slot == result[k].time_slot
            IN  slot.start_time < slot.end_time =>
                    \E d \in SearchedDates : \A u \in UserIx :
                        /\ WorkFrom(users[u], d) <= slot.start_time
                        /\ slot.end_time <= WorkUntil(users[u], d)

\* a slot at 09:00 New York time is returned for the Monday after the clocks
\* moved, which is 13:00 UTC, in a search whose Friday candidates began at
\* 14:00 UTC
C3_Witness ==
    /\ Returned
    /\ date_range = <<0, 3>>
    /\ \E u \in UserIx : users[u].preferences.time_zone = "NY"
    /\ \E k \in ResultSlots : result[k].time_slot.start_time = At(3, 13, 0)
    /\ \E w \in 1..Len(availability_windows) :
          availability_windows[w].start_time = At(0, 14, 0)

\* C4: every returned slot ends exactly `duration` minutes after it starts
\* and records the requested duration.
C4_ExactDuration ==
    Returned =>
        \A k \in ResultSlots :
            /\ result[k].time_slot.end_time - result[k].time_slot.start_time = duration
            /\ result[k].time_slot.duration_minutes = duration

\* slots of a duration other than the step are returned
C4_Witness ==
    /\ Returned
    /\ Len(result) >= 2
    /\ duration = 60

\* C5: the returned list has min(5, surviving candidates) elements and the
\* element at position i (from 1) has rank i.
C5_DenseRanks ==
    Returned =>
        /\ Len(result) = Min2(TopK, Len(availability_windows))
        /\ \A k \in ResultSlots : result[k].rank = k

\* more than five candidates survived and two returned slots have equal scores
C5_Witness ==
    /\ Returned
    /\ Len(availability_windows) > TopK
    /\ Len(result) = TopK
    /\ \E j, k \in ResultSlots :
          j # k /\ result[j].overall_score = result[k].overall_score

ReturnedSlot(ts) == \E k \in ResultSlots : result[k].time_slot = ts

\* C6: returned slots are in non-increasing order of overall score, slots of
\* equal score are in order of start time, and no surviving candidate that is
\* left out scores more than the last returned slot.
C6_RankedOrder ==
    Returned =>
        /\ \A j, k \in ResultSlots :
              j < k =>
                /\ result[j].overall_score >= result[k].overall_score
                /\ result[j].overall_score = result[k].overall_score
                     => result[j].time_slot.start_time < result[k].time_slot.start_time
        /\ \A s \in 1..Len(scored_slots) :
              ~ReturnedSlot(scored_slots[s].time_slot) =>
                  /\ result # <<>>
                  /\ scored_slots[s].overall_score <= result[Len(result)].overall_score
        /\ Len(scored_slots) = Len(availability_windows)

\* a later slot outranks an earlier one, two returned slots tie, and a
\* candidate was left out
C6_Witness ==
    /\ Returned
    /\ Len(scored_slots) > Len(result)
    /\ \E j, k \in ResultSlots :
          /\ j < k
          /\ result[j].time_slot.start_time > result[k].time_slot.start_time
    /\ \E j, k \in ResultSlots :
          j # k /\ result[j].overall_score = result[k].overall_score

\* C7: the overall score of every returned slot is 0.4, 0.3, 0.2 and 0.1 times
\* the productivity, convenience, conflict-risk and preference scores reported
\* on that slot (overall scores are kept in tenths of the sub-score unit).
C7_WeightedSum ==
    Returned =>
        \A k \in ResultSlots :
            result[k].overall_score =
                4 * result[k].productivity_score + 3 * result[k].convenience_score
                + 2 * result[k].conflict_risk_score + 1 * result[k].preference_score

\* a returned slot whose four sub-scores all differ
C7_Witness ==
    /\ Returned
    /\ \E k \in ResultSlots :
          Cardinality({result[k].productivity_score, result[k].convenience_score,
                       result[k].conflict_risk_score, result[k].preference_score}) = 4

InRange10(x) == 0 <= x /\ x <= Pts(100)

\* C8: each of the four sub-scores of every returned slot lies in [0, 10], and
\* so does the overall score.
C8_ScoresInRange ==
    Returned =>
        \A k \in ResultSlots :
            /\ InRange10(result[k].productivity_score)
            /\ InRange10(result[k].convenience_score)
            /\ InRange10(result[k].conflict_risk_score)
            /\ InRange10(result[k].preference_score)
            /\ 0 <= result[k].overall_score
            /\ result[k].overall_score <= 10 * Pts(100)

\* the store resolves an id when one of its user records carries it
Resolves(id) == \E k \in 1..Len(StoredUsers) : StoredUsers[k].user_id = id
Resolvable == SelectSeq(participants, Resolves)
LookedUp == pc # "lookup"

\* C9: once the participants are looked up, the resolved users are the
\* requested ids that the store resolves, in request order; the call fails,
\* with ValueError, exactly when there is none; and a failed call has formed no
\* candidate, searched no date and looked up no meeting.
C9_InvalidParticipants ==
    /\ LookedUp =>
          /\ [k \in 1..Len(users) |-> users[k].user_id] = Resolvable
          /\ pc = "failed" <=> Resolvable = <<>>
    /\ pc = "failed" <=> error = "ValueError"
    /\ pc = "failed" =>
          /\ meeting_lookups = 0
          /\ ~meetings_cache.loaded
          /\ current_date = None
          /\ common_start = None
          /\ availability_windows = <<>>
          /\ result = <<>>

\* a call with an unresolvable id and a resolvable one has gone on to return
\* slots for the resolvable one
C9_Witness ==
    /\ Returned
    /\ result # <<>>
    /\ Len(participants) = 2
    /\ Len(users) = 1
    /\ ~Resolves(participants[1])

\* a call whose only id does not resolve in a readable store has failed
C9_WitnessFailed ==
    /\ pc = "failed"
    /\ Len(participants) = 1
    /\ users_file.ok

\* no instant lies in every resolved participant's working hours of a date
NoCommonWindow(d) ==
    \E u, v \in UserIx : WorkFrom(users[u], d) >= WorkUntil(users[v], d)

\* C10: with a resolved participant the call never raises; when the search
\* ends without a surviving candidate the call returns the empty list; and a
\* date without a common working-hours window adds no candidate and is
\* followed by the next date.
C10_EmptyResult ==
    /\ [](users # <<>> /\ LookedUp => pc # "failed" /\ error = "none")
    /\ [](Returned /\ availability_windows = <<>> => result = <<>>)
    /\ [][pc = "dates" /\ current_date <= date_range[2]
            /\ Weekday(current_date) < 5 /\ NoCommonWindow(current_date)
          => /\ pc' = "dates"
             /\ current_date' = current_date + 1
             /\ availability_windows' = availability_windows
             /\ error' = "none"]_vars

\* two resolved participants whose working hours never meet: a weekday was
\* searched and the call has returned the empty list
C10_Witness ==
    /\ Returned
    /\ result = <<>>
    /\ Len(users) = 2
    /\ duration = 30
    /\ common_start # None
    /\ common_end <= common_start
    /\ \A d \in SearchedDates : NoCommonWindow(d)

\* ------------------------------------------------------------------ C11
\* day 0 is a Friday, so day 1, 8, ... is a Saturday and day 2, 9, ... a Sunday
SaturdayOrSunday(d) == d % 7 \in {1, 2}

\* the Monday-to-Friday dates of the range, ascending, below a limit
WorkdaysBelow(limit) ==
    LET n == Max2(date_range[2] - date_range[1] + 1, 0)
        dates == [k \in 1..n |-> date_range[1] + k - 1]
        Searched(d) == ~SaturdayOrSunday(d) /\ d < limit
    IN  SelectSeq(dates, Searched)

Candidates == availability_windows \o daily_windows

\* C11: the dates searched are, in ascending order, exactly the dates of the
\* range from start to end inclusive that fall on Monday to Friday (those before
\* the current date while the search runs, all of them once it has ended); no
\* candidate lies on a Saturday or Sunday of any participant, whatever the
\* participants' working_days; and a range of Saturdays and Sundays only is
\* answered with the empty list.
C11_WeekdaysSearched ==
    /\ pc \in {"lookup", "failed"} => searched_dates = <<>>
    /\ pc = "dates" => searched_dates = WorkdaysBelow(current_date)
    /\ pc = "slots" => searched_dates = WorkdaysBelow(current_date + 1)
    /\ pc \in {"score", "done"} => searched_dates = WorkdaysBelow(date_range[2] + 1)
    /\ \A k \in 1..Len(Candidates) : \A u \in UserIx :
          ~SaturdayOrSunday(DateOf(LocalStart(users[u], Candidates[k])))
    /\ (\A d \in date_range[1]..date_range[2] : SaturdayOrSunday(d))
          => Candidates = <<>> /\ result = <<>> /\ pc # "score"

\* a participant who works every day of the week, a range from Friday to
\* Monday: Friday and Monday were searched and slots were returned
C11_Witness ==
    /\ Returned
    /\ date_range = <<0, 3>>
    /\ \E u \in UserIx : {5, 6} \subseteq users[u].preferences.working_days
    /\ searched_dates = <<0, 3>>
    /\ result # <<>>

\* ------------------------------------------------------------------ C12
SecondCallEnded == first_call # <<>> /\ pc \in {"done", "failed"}

\* C12: when a call is repeated with the same arguments against the same
\* stores, the second call ends as the first did: the same list of slots in
\* the same order (start, end, every score, rank, explanation and impact), or
\* the same error.
C12_RepeatableResult ==
    SecondCallEnded => Outcome = first_call[1]

\* both calls returned the same five ranked slots, and the second call read
\* the meetings from the memo the first one left
C12_Witness ==
    /\ SecondCallEnded
    /\ Returned
    /\ Len(result) = TopK
    /\ first_call[1].result = result
    /\ meetings_cache.loaded
    /\ StoredMeetings # <<>>

\* ------------------------------------------------------------------ C13
\* what a store holds once read: the file's records, none when unreadable
Readable(file) == IF file.ok THEN file.data ELSE <<>>

\* C13: no step of a call, whether the call goes on to return slots, to return
\* the empty list or to fail, changes a data file; the first read of a store
\* keeps the file's records as they are and in their order, and what a store
\* has read is never changed afterwards.
C13_StoresUnchanged ==
    [][/\ users_file' = users_file
       /\ meetings_file' = meetings_file
       /\ users_cache'.loaded => users_cache'.data = Readable(users_file)
       /\ meetings_cache'.loaded => meetings_cache'.data = Readable(meetings_file)
       /\ users_cache.loaded => users_cache' = users_cache
       /\ meetings_cache.loaded => meetings_cache' = meetings_cache]_vars

\* a call has returned slots after reading both stores, which hold what the
\* files hold
C13_Witness ==
    /\ Returned
    /\ result # <<>>
    /\ meeting_lookups > 0
    /\ users_cache = Cached(UsersData)
    /\ meetings_cache = Cached(MeetingsData)
    /\ users_file = File(TRUE, UsersData)
    /\ meetings_file = File(TRUE, MeetingsData)

\* ------------------------------------------------------------------ C14
\* a store was read during the call and its file could not be read
ReadFailed ==
    \/ users_cache.loaded /\ ~users_file.ok
    \/ meetings_cache.loaded /\ ~meetings_file.ok

\* C14: a call during which the read of the meeting store or of the user
\* store failed does not return: no list of slots, empty or not, comes back
\* from it, and no candidate is kept as if nobody had a booked meeting.
C14_ReadFailureFails ==
    ReadFailed => ~Returned /\ availability_windows = <<>>

\* ------------------------------------------------------------------ C15
InvalidRequest ==
    \/ participants = <<>>
    \/ duration <= 0
    \/ date_range[1] > date_range[2]

\* C15: a call with an empty participant list, a duration of zero or less, or
\* a start date after the end date is refused with an error before anything
\* is looked up or searched: no store is read, no date is searched, no meeting
\* is looked up and no list of slots is returned.
C15_InvalidRequestRejected ==
    InvalidRequest =>
        /\ pc \in {"lookup", "failed"}
        /\ ~users_cache.loaded
        /\ ~meetings_cache.loaded
        /\ searched_dates = <<>>
        /\ meeting_lookups = 0
        /\ result = <<>>

\* ------------------------------------------------------------------ C16
\* the candidates of the current date that start before a limit: the starts
\* common_start + 30k whose slot ends at common_end or earlier, ascending,
\* those kept that pass the lunch and booked-meeting checks
DayCandidates(limit) ==
    LET room == common_end - common_start - duration
        n == IF room < 0 THEN 0 ELSE room \div 30 + 1
        starts == [k \in 1..n |-> common_start + 30 * (k - 1)]
        Kept(t) == /\ t < limit
                   /\ CheckAvailabilityAtTime(Readable(meetings_file), users,
                                              t, duration)
        kept == SelectSeq(starts, Kept)
    IN  [k \in 1..Len(kept) |-> TimeSlot(users, kept[k], duration)]

\* C16: on a date with a common window [common_start, common_end) the
\* candidates kept are exactly the intervals [common_start + 30k,
\* common_start + 30k + duration) that end at common_end or earlier and pass
\* the checks, in ascending order: those tried so far while the day is being
\* searched, all of them afterwards. Overlapping candidates are all kept.
C16_DailyCandidates ==
    /\ pc = "slots" => daily_windows = DayCandidates(current_time)
    /\ (pc \in {"dates", "score", "done"} /\ common_start # None
          /\ common_start < common_end)
         => daily_windows = DayCandidates(common_end - duration + 1)

\* a meeting as long as the common window: the day is finished with exactly
\* one candidate, the window itself
C16_Witness ==
    /\ pc = "dates"
    /\ common_start # None
    /\ duration = common_end - common_start
    /\ Len(daily_windows) = 1
    /\ daily_windows[1].start_time = common_start
    /\ daily_windows[1].end_time = common_end

\* ------------------------------------------------------------------ C17
\* two resolved participants of one time zone who both work 09:00-17:00
\* without a lunch break and have no stored meeting, a 30-minute meeting and a
\* range of one Monday-to-Friday date
TwoColleaguesOneDay ==
    /\ Len(users) = 2
    /\ LookedUp
    /\ users[1].preferences.time_zone = users[2].preferences.time_zone
    /\ \A u \in UserIx :
          /\ users[u].preferences.working_hours_start = T(9, 0)
          /\ users[u].preferences.working_hours_end = T(17, 0)
          /\ ~HasLunch(users[u])
          /\ \A j \in 1..Len(Readable(meetings_file)) :
                ~Lists(Readable(meetings_file)[j], users[u])
    /\ duration = 30
    /\ date_range[1] = date_range[2]
    /\ ~SaturdayOrSunday(date_range[1])

\* the scored candidates that start at 09:00 local time of the only date
NineOClock ==
    {k \in 1..Len(scored_slots) :
        LocalStart(users[1], scored_slots[k].time_slot)
          = Combine(date_range[1], T(9, 0))}

\* C17: in that scenario the call returns, and among the candidates it scored
\* there is one that starts at 09:00 local time; its productivity score is at
\* least 5.0 and its conflict-risk score is exactly 8.0.
C17_TwoColleagues ==
    TwoColleaguesOneDay =>
        /\ pc # "failed"
        /\ Returned =>
              /\ NineOClock # {}
              /\ \A k \in NineOClock :
                    /\ scored_slots[k].productivity_score >= Pts(50)
                    /\ scored_slots[k].conflict_risk_score = Pts(80)

\* the scenario on the Monday: the call has returned and the 09:00 candidate
\* was scored, with a conflict-risk score of 8.0
C17_Witness ==
    /\ TwoColleaguesOneDay
    /\ Returned
    /\ date_range = <<3, 3>>
    /\ meetings_file.ok
    /\ \E k \in NineOClock : scored_slots[k].conflict_risk_score = Pts(80)

\* ------------------------------------------------------------------ C18
RECURSIVE SumSeq(_)
SumSeq(seq) == IF seq = <<>> THEN 0 ELSE seq[1] + SumSeq(Tail(seq))

LocalHour(u, time_slot) == HourOf(TimeOf(LocalStart(u, time_slot)))

\* the tier of the declared period that holds the hour, in tenths; 50 if none
Tier(declared, h) ==
    IF "early_morning" \in declared /\ 6 <= h /\ h < 9 THEN 90
    ELSE IF "morning" \in declared /\ 9 <= h /\ h < 12 THEN 95
    ELSE IF "afternoon" \in declared /\ 12 <= h /\ h < 15 THEN 85
    ELSE IF "late_afternoon" \in declared /\ 15 <= h /\ h < 18 THEN 80
    ELSE IF "evening" \in declared /\ 18 <= h /\ h < 21 THEN 70
    ELSE 50

ScoredIx == 1..Len(scored_slots)

\* C18: the productivity sub-score of a scored slot is the arithmetic mean,
\* over the participants, of the tier value of the declared period that holds
\* the local hour of the slot start (9.0, 9.5, 8.5, 8.0, 7.0), or 5.0 when no
\* declared period holds it; it depends on the set of declared periods only,
\* not on their order.
C18_ProductivityTiers ==
    \A k \in ScoredIx :
        LET slot == scored_slots[k].time_slot
            each == [u \in UserIx |->
                       Pts(Tier(Range(users[u].preferences.productive_periods),
                                LocalHour(users[u], slot)))]
        IN  scored_slots[k].productivity_score * Len(users) = SumSeq(each)

\* one participant who lists evening after morning, a slot in the local
\* morning: the score is the morning tier
C18_Witness ==
    /\ Len(users) = 1
    /\ users[1].preferences.productive_periods = <<"morning", "evening">>
    /\ \E k \in ScoredIx :
          /\ LocalHour(users[1], scored_slots[k].time_slot) = 10
          /\ scored_slots[k].productivity_score = Pts(95)

\* ------------------------------------------------------------------ C19
\* tenths of a point lost for the local hour of the start
HourPenalty(h) ==
    IF h < 8 THEN 15 * (8 - h) ELSE IF h > 17 THEN 10 * (h - 17) ELSE 0

LocalStartTime(u, time_slot) == TimeOf(LocalStart(u, time_slot))

\* the local end of the slot, in minutes after the midnight that begins the
\* local date of its start (more than a day's minutes when it ends after the
\* next midnight)
LocalEndTime(u, time_slot) ==
    AsTimezone(u.preferences.time_zone, time_slot.end_time)
      - Combine(DateOf(LocalStart(u, time_slot)), 0)

\* the penalties as stated: the start against no_meetings_before, the end
\* against no_meetings_after
StatedLimitPenalty(u, time_slot) ==
    (IF /\ u.preferences.no_meetings_before # None
        /\ LocalStartTime(u, time_slot) < u.preferences.no_meetings_before
     THEN 30 ELSE 0)
    + (IF /\ u.preferences.no_meetings_after # None
          /\ LocalEndTime(u, time_slot) > u.preferences.no_meetings_after
       THEN 30 ELSE 0)

\* C19: in the convenience sub-score a participant loses 3.0 points for
\* no_meetings_after exactly when the local end of the slot is later than it,
\* and 3.0 points for no_meetings_before exactly when the local start of the
\* slot is earlier than it (each participant's score being 8.0 less the hour
\* penalty less these, floored at 1.0, and the sub-score their mean).
C19_LimitPenalties ==
    \A k \in ScoredIx :
        LET slot == scored_slots[k].time_slot
            each == [u \in UserIx |->
                       Max2(Pts(80 - HourPenalty(LocalHour(users[u], slot))
                                   - StatedLimitPenalty(users[u], slot)),
                            Pts(10))]
        IN  scored_slots[k].convenience_score * Len(users) = SumSeq(each)

\* ------------------------------------------------------------------ C20
\* how many of the two limits on meeting times a participant has set
LimitsSet(u) ==
    (IF u.preferences.no_meetings_before # None THEN 1 ELSE 0)
    + (IF u.preferences.no_meetings_after # None THEN 1 ELSE 0)

\* C20: the convenience sub-score of a scored slot is the mean of the
\* participants' scores, each of which is 8.0 less 1.5 per hour of the local
\* start hour below 8 or 1.0 per hour of it above 17, less 3.0 for each limit
\* on meeting times that applies, and raised to 1.0 if lower, before the mean
\* is taken; so the sub-score lies between 1.0 and 8.0.
C20_ConvenienceFloor ==
    \A k \in ScoredIx :
        LET slot == scored_slots[k].time_slot
            score == scored_slots[k].convenience_score
        IN  /\ Pts(10) <= score /\ score <= Pts(80)
            /\ \E limits \in [UserIx -> {0, 1, 2}] :
                  /\ \A u \in UserIx : limits[u] <= LimitsSet(users[u])
                  /\ score * Len(users) = SumSeq(
                        [u \in UserIx |->
                           Max2(Pts(80 - HourPenalty(LocalHour(users[u], slot))
                                       - 30 * limits[u]),
                                Pts(10))])

\* two participants, for one of whom the slot starts at 02:00 local time (a
\* raw score of -1.0 raised to 1.0), for the other at 17:00 without penalty:
\* the sub-score is 4.5
C20_Witness ==
    /\ Len(users) = 2
    /\ \E k \in ScoredIx :
          /\ LocalHour(users[2], scored_slots[k].time_slot) = 2
          /\ LocalHour(users[1], scored_slots[k].time_slot) = 17
          /\ LimitsSet(users[1]) = 0
          /\ scored_slots[k].convenience_score = Pts(45)

\* ------------------------------------------------------------------ C21
\* the stored meetings of a participant that intersect the window from 30
\* minutes before to 30 minutes after the start of a slot
MeetingsNear(u, time_slot) ==
    {j \in 1..Len(Readable(meetings_file)) :
        LET m == Readable(meetings_file)[j]
        IN  /\ Lists(m, u)
            /\ m.start_time < time_slot.start_time + 30
            /\ m.end_time > time_slot.start_time - 30}

\* M: the sum over the participants of the number of their meetings near
CountedMeetings(time_slot) ==
    SumSeq([u \in UserIx |-> Cardinality(MeetingsNear(users[u], time_slot))])

\* C21: the conflict-risk sub-score of every scored slot is max(1.0, 8.0 -
\* 0.5 * M), one value for the slot, where M adds up, participant by
\* participant, the participant's meetings near the slot start (a meeting of
\* two participants counts twice); it is 8.0 exactly when M is zero.
C21_ConflictRisk ==
    Returned =>
        \A k \in ScoredIx :
            LET M == CountedMeetings(scored_slots[k].time_slot)
                score == scored_slots[k].conflict_risk_score
            IN  /\ score = Max2(Pts(10), Pts(80) - M * Pts(5))
                /\ score = Pts(80) <=> M = 0

\* two participants who share a meeting that ends when a scored slot starts:
\* the meeting is counted for both and the score is 7.0
C21_Witness ==
    /\ Returned
    /\ Len(users) = 2
    /\ \E k \in ScoredIx :
          /\ MeetingsNear(users[1], scored_slots[k].time_slot)
                = MeetingsNear(users[2], scored_slots[k].time_slot)
          /\ CountedMeetings(scored_slots[k].time_slot) = 2
          /\ scored_slots[k].conflict_risk_score = Pts(70)

\* ------------------------------------------------------------------ C22
\* the slot starts on a Friday (day 0, 7, ...) and a block of the participant
\* mentions Friday
FridayBlocked(u, time_slot) ==
    /\ DateOf(time_slot.start_time) % 7 = 0
    /\ \E b \in 1..Len(u.preferences.meeting_free_blocks) :
          MentionsFriday(u.preferences.meeting_free_blocks[b])

\* C22: the preference sub-score of every scored slot is the mean, over the
\* participants, of 6.0 for a participant with a block that mentions Friday
\* when the slot is on a Friday (one deduction of 2.0, however many such
\* blocks) and 8.0 otherwise; so it lies between 6.0 and 8.0.
C22_PreferenceOnce ==
    Returned =>
        \A k \in ScoredIx :
            LET slot == scored_slots[k].time_slot
                score == scored_slots[k].preference_score
                each == [u \in UserIx |->
                           IF FridayBlocked(users[u], slot) THEN Pts(60) ELSE Pts(80)]
            IN  /\ score * Len(users) = SumSeq(each)
                /\ Pts(60) <= score /\ score <= Pts(80)

\* ------------------------------------------------------------------ C23
ProductivitySentence(score) ==
    IF score >= Pts(85) THEN "Optimal productivity time for most participants"
    ELSE IF score >= Pts(70) THEN "Good productivity time for participants"
    ELSE "Suboptimal productivity time"

ConvenienceSentence(score) ==
    IF score >= Pts(80) THEN "Convenient time across time zones"
    ELSE "Some timezone inconvenience"

ConflictSentence(score) ==
    IF score >= Pts(80) THEN "Low conflict risk"
    ELSE "Potential scheduling conflicts"

\* C23: the explanation of every returned slot is three sentences, the first
\* chosen by the productivity score (8.5 and 7.0), the second by the
\* convenience score (8.0), the third by the conflict-risk score (8.0); slots
\* that agree in these three scores have the same explanation, whatever their
\* preference scores.
C23_Explanation ==
    Returned =>
        /\ \A k \in ResultSlots :
              result[k].explanation =
                << ProductivitySentence(result[k].productivity_score),
                   ConvenienceSentence(result[k].convenience_score),
                   ConflictSentence(result[k].conflict_risk_score) >>
        /\ \A j, k \in ResultSlots :
              (/\ result[j].productivity_score = result[k].productivity_score
               /\ result[j].convenience_score = result[k].convenience_score
               /\ result[j].conflict_risk_score = result[k].conflict_risk_score)
              => result[j].explanation = result[k].explanation

\* two returned slots with the same productivity, convenience and
\* conflict-risk scores and different preference scores, and one explanation;
\* the convenience score is exactly 8.0
C23_Witness ==
    /\ Returned
    /\ \E j, k \in ResultSlots :
          /\ result[j].preference_score # result[k].preference_score
          /\ result[j].productivity_score = result[k].productivity_score
          /\ result[j].convenience_score = Pts(80)
          /\ result[k].convenience_score = Pts(80)
          /\ result[j].conflict_risk_score = result[k].conflict_risk_score
          /\ result[j].explanation = result[k].explanation

\* ------------------------------------------------------------------ C24
Bucket(h) ==
    IF h \in 9..17 THEN "excellent"
    ELSE IF h \in {8, 18} THEN "good"
    ELSE IF h \in {7, 19} THEN "fair"
    ELSE "poor"

\* C24: the participant_impact map of every scored slot, and so of every
\* returned one, has the resolved participants' ids as its keys, one entry
\* each, and the impact of a participant's entry is the bucket of the local
\* hour of the slot start in that participant's time zone: excellent for 9 to
\* 17, good for 8 and 18, fair for 7 and 19, poor otherwise.
C24_ParticipantImpact ==
    \A k \in ScoredIx :
        LET impact == scored_slots[k].participant_impact
        IN  /\ DOMAIN impact = {users[u].user_id : u \in UserIx}
            /\ Cardinality(DOMAIN impact) = Len(users)
            /\ \A u \in UserIx :
                  /\ impact[users[u].user_id].impact
                       = Bucket(LocalHour(users[u], scored_slots[k].time_slot))
                  /\ impact[users[u].user_id].timezone
                       = users[u].preferences.time_zone

\* a returned slot that starts at 18:00 for one participant (good) and in the
\* night for the other (poor)
C24_Witness ==
    /\ Returned
    /\ Len(users) = 2
    /\ \E k \in ResultSlots :
          /\ LocalHour(users[1], result[k].time_slot) = 18
          /\ result[k].participant_impact[users[1].user_id].impact = "good"
          /\ result[k].participant_impact[users[2].user_id].impact = "poor"

\* ------------------------------------------------------------------ C25
\* the lunch and booked-meeting checks of a candidate pass
PassesChecks(time_slot) ==
    CheckAvailabilityAtTime(Readable(meetings_file), users,
                            time_slot.start_time, time_slot.duration_minutes)

ResolvedIds == [k \in 1..Len(users) |-> users[k].user_id]

\* C25: while the participants are being looked up no candidate is formed, no
\* date is searched and no meeting is looked up, and when the lookup is over
\* every requested id that the store resolves has been resolved; nothing is
\* scored while candidates are still being formed and checked; and the
\* candidate scored last is a kept candidate whose checks pass.
C25_StepOrder ==
    /\ pc = "lookup" =>
          /\ Candidates = <<>>
          /\ searched_dates = <<>>
          /\ meeting_lookups = 0
          /\ ~meetings_cache.loaded
          /\ scored_slots = <<>>
    /\ pc \in {"dates", "slots"} =>
          /\ idx = Len(participants) + 1
          /\ ResolvedIds = Resolvable
          /\ scored_slots = <<>>
    /\ (pc = "score" /\ idx > 1) =>
          /\ ResolvedIds = Resolvable
          /\ Len(scored_slots) = idx - 1
          /\ scored_slots[idx - 1].time_slot = availability_windows[idx - 1]
          /\ PassesChecks(availability_windows[idx - 1])
    /\ Returned => Len(scored_slots) = Len(availability_windows)

\* two participants on a Friday on which two of the sixteen candidates fail
\* the booked-meeting check: the first of the fourteen kept is scored
C25_Witness ==
    /\ pc = "score"
    /\ idx = 2
    /\ Len(participants) = 2
    /\ Len(users) = 2
    /\ date_range = <<0, 0>>
    /\ duration = 30
    /\ common_end - common_start = 480
    /\ Len(availability_windows) = 14
    /\ meeting_lookups > 0

\* ------------------------------------------------------------------ C26
\* C26 as stated: every returned slot lists in available_participants the
\* full set of the ids the caller requested, and nothing in
\* unavailable_participants.
C26_AllRequested ==
    Returned =>
        \A k \in ResultSlots :
            /\ Range(result[k].time_slot.available_participants) = Range(participants)
            /\ result[k].time_slot.unavailable_participants = <<>>

\* C26, amended: every returned slot lists in available_participants the
\* resolved participants, that is the requested ids that the user store
\* resolves, in the order of the request, and nothing in
\* unavailable_participants; the list is the full requested list exactly when
\* every requested id resolves.
C26_AllResolved ==
    Returned =>
        \A k \in ResultSlots :
            /\ result[k].time_slot.available_participants = Resolvable
            /\ result[k].time_slot.available_participants = ResolvedIds
            /\ result[k].time_slot.unavailable_participants = <<>>
            /\ result[k].time_slot.available_participants = participants
                 <=> \A j \in 1..Len(participants) : Resolves(participants[j])

\* a request for a known and an unknown id: the returned slots list the known
\* one only
C26_Witness ==
    /\ Returned
    /\ result # <<>>
    /\ Len(participants) = 2
    /\ \E j \in 1..2 : ~Resolves(participants[j])
    /\ \A k \in ResultSlots :
          Len(result[k].time_slot.available_participants) = 1

\* ------------------------------------------------------------------ C27
\* the second of two runs that differ in the unread values only has ended
OtherKnobsRunEnded ==
    /\ first_call # <<>>
    /\ preferences # {}
    /\ pc \in {"done", "failed"}

\* C27: a run with other values of working_days, max_daily_meetings,
\* max_consecutive_meetings, buffer_time_minutes, preferred_meeting_duration
\* and avoid_back_to_back in the users' profiles and with another preferences
\* argument, everything else being the same, ends as the first run did: with
\* the same ranked list of slots, or the same error.
C27_KnobsIgnored ==
    OtherKnobsRunEnded =>
        /\ result = first_call[1].result
        /\ error = first_call[1].error
        /\ pc = first_call[1].ended

\* both runs returned the same five slots, the second for users whose unread
\* fields have the other values
C27_Witness ==
    /\ OtherKnobsRunEnded
    /\ Returned
    /\ Len(result) = TopK
    /\ result = first_call[1].result
    /\ \A u \in UserIx : users[u].preferences.buffer_time_minutes = 60
    /\ \E u \in UserIx : users[u].preferences.working_days = EveryDay
    /\ meeting_lookups > 0

\* ------------------------------------------------------------------ C28
LocalDates(u, time_slot) ==
    { DateOf(LocalStart(u, time_slot)),
      DateOf(AsTimezone(u.preferences.time_zone, time_slot.end_time)) }

NightShift(u) ==
    u.preferences.working_hours_end <= u.preferences.working_hours_start

\* C28: every candidate kept, and so every returned slot, starts and ends, on
\* the clock of each resolved participant, on one date; that date is a
\* searched date, a Monday to Friday, and the same for all participants; and
\* with a resolved participant whose working hours do not end later than they
\* start no date yields a candidate and the empty list is returned.
C28_LocalDate ==
    /\ \A k \in 1..Len(Candidates) :
          \E d \in Range(searched_dates) :
              /\ ~SaturdayOrSunday(d)
              /\ \A u \in UserIx : LocalDates(users[u], Candidates[k]) = {d}
    /\ Returned =>
          \A k \in ResultSlots :
              result[k].time_slot \in Range(availability_windows)
    /\ (LookedUp /\ \E u \in UserIx : NightShift(users[u])) =>
          /\ Candidates = <<>>
          /\ pc # "score"
          /\ result = <<>>

\* a participant by day and one whose hours end before they start: Friday and
\* Monday were searched, neither gave a candidate, the empty list is returned
C28_Witness ==
    /\ Returned
    /\ Len(users) = 2
    /\ ~NightShift(users[1])
    /\ NightShift(users[2])
    /\ searched_dates = <<0, 3>>
    /\ common_end <= common_start
    /\ result = <<>>

\* ------------------------------------------------------------------ C29
\* the stored meetings of a participant that end at the start of a slot or up
\* to 30 minutes (exclusive) before it
EndingJustBefore(u, time_slot) ==
    {j \in 1..Len(Readable(meetings_file)) :
        LET m == Readable(meetings_file)[j]
        IN  /\ Lists(m, u)
            /\ m.end_time <= time_slot.start_time
            /\ m.end_time > time_slot.start_time - 30}

\* the stored meetings of a participant that begin at the end of a slot or
\* later
BeginningAfter(u, time_slot) ==
    {j \in 1..Len(Readable(meetings_file)) :
        /\ Lists(Readable(meetings_file)[j], u)
        /\ Readable(meetings_file)[j].start_time >= time_slot.end_time}

\* C29: for a kept candidate, and so for a returned slot, of 30 minutes or
\* more, the meetings that lower the conflict-risk score are exactly the
\* participants' meetings that end at the slot start or less than 30 minutes
\* before it, 0.5 each; a meeting that begins at the slot end or later is not
\* among them.
C29_CountedMeetings ==
    (Returned /\ duration >= 30) =>
        \A k \in ScoredIx :
            LET slot == scored_slots[k].time_slot
                counted == SumSeq([u \in UserIx |->
                              Cardinality(EndingJustBefore(users[u], slot))])
            IN  /\ scored_slots[k].conflict_risk_score
                     = Max2(Pts(10), Pts(80) - counted * Pts(5))
                /\ \A u \in UserIx :
                      /\ MeetingsNear(users[u], slot) = EndingJustBefore(users[u], slot)
                      /\ MeetingsNear(users[u], slot) \cap BeginningAfter(users[u], slot) = {}

\* one participant, a 60-minute slot that starts when a meeting of theirs
\* ends and is followed by no other: that meeting alone is counted, the score
\* is 7.5
C29_Witness ==
    /\ Returned
    /\ duration = 60
    /\ Len(users) = 1
    /\ \E k \in ResultSlots :
          /\ result[k].conflict_risk_score = Pts(75)
          /\ \E j \in EndingJustBefore(users[1], result[k].time_slot) :
                StoredMeetings[j].end_time = result[k].time_slot.start_time

\* ------------------------------------------------------------------ C30
\* C30: once the meeting store has been read, the list it holds in memory,
\* which get_user_meetings reads, equals the list in data/meetings.json after
\* any sequence of create_meeting, update_meeting and delete_meeting, also
\* when a save failed; and no two meetings of the list have the same
\* meeting_id.
C30_MemoryEqualsFile ==
    meetings_cache.loaded =>
        /\ meetings_file.ok
             => meetings_cache.data = meetings_file.data
        /\ \A j, k \in 1..Len(meetings_cache.data) :
              j # k => meetings_cache.data[j].meeting_id
                         # meetings_cache.data[k].meeting_id

====
